---- MODULE Spec2Model ----
(***************************************************************************)
(* task-cli: the repository layer (src/src/repository.py) on top of the    *)
(* JSON file storage (src/src/storage.py), run by processes that share one *)
(* storage file.  The file is a sequence of tokens, so that truncation,    *)
(* positional writes and torn content are visible to the parser.           *)
(***************************************************************************)
EXTENDS Integers, Sequences, FiniteSets, TLC

(* ------------------------------ bounds -------------------------------- *)

\* create_task is not called once this many calls have been made
MaxCreates == 2
\* tokens the buffered writer of open(path, 'w') holds before it flushes
BufTokens == 4

\* the processes that share the storage file
Procs == {"p1", "p2"}

(* ------------------------------ models.py ----------------------------- *)

PENDING == "pending"
DONE == "done"
Status == {PENDING, DONE}

LOW == "low"
MEDIUM == "medium"
HIGH == "high"
Priority == {LOW, MEDIUM, HIGH}

\* Python's None in the Optional[int] field Task.id (ids in the model are >= 0)
None == -1

\* the titles and priorities callers pass: titles are character sequences,
\* of different lengths
ArgTitles == {[title |-> <<"a">>, priority |-> MEDIUM],
              [title |-> <<"b", "b">>, priority |-> HIGH]}

\* the ids callers pass: those create_task can have assigned
ArgIds == 1..MaxCreates

\* datetime values (seconds, microseconds), with and without a fraction
Datetimes == {[sec |-> 0, usec |-> 0], [sec |-> 0, usec |-> 1]}

Task(id, title, priority, status, created_at) ==
    [id |-> id, title |-> title, status |-> status,
     priority |-> priority, created_at |-> created_at]

(* ------------------- dict[int, Task], insertion-ordered ---------------- *)

Keys(d) == {d[i].key : i \in DOMAIN d}

Get(d, k) == (CHOOSE i \in DOMAIN d : d[i].key = k) \* only for k \in Keys(d)

GetTask(d, k) == d[Get(d, k)].task

\* mutant of Put: the dict is replaced by {k: t}
PutAlone(d, k, t) == <<[key |-> k, task |-> t]>>

\* mutant of Put: d.setdefault(k, t), an entry that exists is kept
PutKeep(d, k, t) ==
    IF k \in Keys(d) THEN d ELSE Append(d, [key |-> k, task |-> t])

\* d[k] = t
Put(d, k, t) ==
    IF k \in Keys(d)
    THEN [i \in DOMAIN d |-> IF d[i].key = k THEN [key |-> k, task |-> t] ELSE d[i]]
    ELSE Append(d, [key |-> k, task |-> t])

\* mutant of Del: the entry inserted first is removed, whatever its key
DelFirst(d, k) == Tail(d)

\* del d[k]
Del(d, k) == SelectSeq(d, LAMBDA e : e.key # k)

SetMax(S) == CHOOSE m \in S : \A n \in S : n <= m

\* mutant of NextId: max(tasks.keys(), default=1) + 1
NextIdDefaultOne(d) == (IF Keys(d) = {} THEN 1 ELSE SetMax(Keys(d))) + 1

\* max(tasks.keys(), default=0) + 1
NextId(d) == (IF Keys(d) = {} THEN 0 ELSE SetMax(Keys(d))) + 1

(* ----------------------- conversions of storage.py --------------------- *)

Digits == <<"0", "1", "2", "3", "4", "5", "6", "7", "8", "9">>

RECURSIVE Str(_)
\* str(task_id), task_id >= 0
Str(n) == IF n < 10 THEN <<Digits[n + 1]>>
          ELSE Str(n \div 10) \o <<Digits[(n % 10) + 1]>>

DigitVal(c) == (CHOOSE i \in DOMAIN Digits : Digits[i] = c) - 1

RECURSIVE IntOf(_)
\* int(task_id_str)
IntOf(s) == IF Len(s) = 1 THEN DigitVal(s[1])
            ELSE 10 * IntOf(SubSeq(s, 1, Len(s) - 1)) + DigitVal(s[Len(s)])

\* mutant of IsoFormat: isoformat(timespec='seconds'), never a fraction
IsoFormatSeconds(dt) == <<dt.sec>>

\* datetime.isoformat(): the fraction is left out when microsecond is 0
IsoFormat(dt) == IF dt.usec = 0 THEN <<dt.sec>> ELSE <<dt.sec, dt.usec>>

\* mutant of FromIsoFormat: the fraction is dropped
FromIsoFormatNoFraction(s) == [sec |-> s[1], usec |-> 0]

\* datetime.fromisoformat()
FromIsoFormat(s) == [sec |-> s[1], usec |-> IF Len(s) = 1 THEN 0 ELSE s[2]]

(* ------------------------- the file's tokens --------------------------- *)

\* the members of a task object other than its title; absent names the
\* members, title included, that the object lacks
NoHead == [key |-> <<>>, id |-> 0, status |-> "", priority |-> "", created_at |-> <<>>,
           absent |-> {}]

Tok(t, c, h) == [t |-> t, c |-> c, h |-> h]

LBrace == Tok("{", "", NoHead)
RBrace == Tok("}", "", NoHead)
EndObj == Tok("end", "", NoHead)
\* the byte a hole in the file reads as
NUL == Tok("nul", "", NoHead)
Ch(c) == Tok("ch", c, NoHead)

\* "<key>": {"id": .., "status": .., "priority": .., "created_at": .., "title": "
HeadTok(key, task) ==
    Tok("head", "",
        [key |-> Str(key), id |-> task.id, status |-> task.status,
         priority |-> task.priority, created_at |-> IsoFormat(task.created_at),
         absent |-> {}])

EntryTokens(e) ==
    <<HeadTok(e.key, e.task)>> \o [i \in DOMAIN e.task.title |-> Ch(e.task.title[i])]
        \o <<EndObj>>

RECURSIVE FlattenEntries(_)
FlattenEntries(d) ==
    IF d = <<>> THEN <<>> ELSE EntryTokens(Head(d)) \o FlattenEntries(Tail(d))

\* json.dump(serializable_tasks, f): the whole document, entries in dict order
Serialize(d) == <<LBrace>> \o FlattenEntries(d) \o <<RBrace>>

\* the index of the first token at or after i that is not a title character
RECURSIVE SkipChars(_, _)
SkipChars(toks, i) ==
    IF i <= Len(toks) /\ toks[i].t = "ch" THEN SkipChars(toks, i + 1) ELSE i

TitleOf(toks, i, j) == [k \in 1..(j - i) |-> toks[i + k - 1].c]

\* mutant of ParseError: content that does not parse is taken as no tasks
ParseErrorSwallowed == [exc |-> "", tasks |-> <<>>]

\* json.JSONDecodeError, raised by json.loads
ParseError == [exc |-> "JSONDecodeError", tasks |-> <<>>]

\* what load returns: the dict of tasks
Loaded(d) == [exc |-> "", tasks |-> d]

\* Task(id=.., title=.., status=Status(..), priority=Priority(..),
\*      created_at=datetime.fromisoformat(..))
TaskOfData(h, title) ==
    Task(h.id, title, h.priority, h.status, FromIsoFormat(h.created_at))

\* a task object as json.loads returns it
Data(h, title) == [h |-> h, title |-> title]

\* mutant of FieldError: every member is read with a default, nothing is checked
FieldErrorNone(h) == ""

\* the exception that building the Task from a task object raises, "" when
\* none: task_data[..] of a member that is absent is a KeyError, Status(..)
\* and Priority(..) of another string a ValueError; the arguments are
\* evaluated in the order id, title, status, priority, created_at
FieldError(h) ==
    IF "id" \in h.absent \/ "title" \in h.absent \/ "status" \in h.absent THEN "KeyError"
    ELSE IF h.status \notin Status THEN "ValueError"
    ELSE IF "priority" \in h.absent THEN "KeyError"
    ELSE IF h.priority \notin Priority THEN "ValueError"
    ELSE IF "created_at" \in h.absent THEN "KeyError"
    ELSE ""

\* the conversion loop of load: for task_id_str, task_data in data.items()
RECURSIVE Convert(_, _)
Convert(data, acc) ==
    IF data = <<>> THEN Loaded(acc)
    ELSE LET e == Head(data)
         IN  IF FieldError(e.task.h) # ""
             THEN [exc |-> FieldError(e.task.h), tasks |-> <<>>]
             ELSE Convert(Tail(data),
                          Put(acc, e.key, TaskOfData(e.task.h, e.task.title)))

\* json.loads: the task objects from token i on, acc the dict built so far
RECURSIVE ParseEntries(_, _, _)
ParseEntries(toks, i, acc) ==
    IF i > Len(toks) THEN ParseError
    ELSE IF toks[i] = RBrace
         THEN IF i = Len(toks) THEN Loaded(acc) ELSE ParseError
    ELSE IF toks[i].t = "head"
         THEN LET j == SkipChars(toks, i + 1)
              IN  IF j <= Len(toks) /\ toks[j] = EndObj
                  THEN ParseEntries(toks, j + 1,
                           Put(acc, IntOf(toks[i].h.key),
                               Data(toks[i].h, TitleOf(toks, i + 1, j))))
                  ELSE ParseError
    ELSE ParseError

\* data = json.loads(content), content not empty
JsonLoads(content) ==
    IF content[1] # LBrace THEN ParseError ELSE ParseEntries(content, 2, <<>>)

\* json.loads and then the conversion loop
LoadsAndConvert(content) ==
    IF JsonLoads(content).exc # "" THEN JsonLoads(content)
    ELSE Convert(JsonLoads(content).tasks, <<>>)

\* mutant of LoadResult: without "if not content: return {}"
LoadResultNoEmptyCheck(content) ==
    IF content = <<>> THEN ParseError ELSE LoadsAndConvert(content)

\* what load makes of the content it read
LoadResult(content) ==
    IF content = <<>> THEN Loaded(<<>>) ELSE LoadsAndConvert(content)

\* the file after write(toks) at offset pos: a write past the end leaves a hole
WriteAt(data, pos, toks) ==
    LET n == IF pos + Len(toks) > Len(data) THEN pos + Len(toks) ELSE Len(data)
    IN  [i \in 1..n |->
            IF i > pos /\ i <= pos + Len(toks) THEN toks[i - pos]
            ELSE IF i <= Len(data) THEN data[i]
            ELSE NUL]

(* ------------------------------- state --------------------------------- *)

VARIABLES
    unlinked,     \* per process: <<content>> of the file it has open when the
                  \* file has been unlinked from the path, <<>> otherwise
    fileExists,   \* the storage file exists
    fileData,     \* its content, a sequence of tokens
    locks,        \* per process: the flock it holds, "", "sh" or "ex"
    pc,           \* per process: where it is in load / save / the method
    call,         \* per process: the public operation it is running
    frame,        \* per process: the repository method whose body is running
    loaded,       \* per process: what its load returns or raises
    tasks,        \* per process: the local variable tasks
    task,         \* per process: the local variable task
    wbuf,         \* per process: tokens written to f and not yet flushed
    wpos,         \* per process: the offset of its open file description
    ret,          \* per process: what its last finished operation returned
    cli,          \* per process: what the command that made the call printed
                  \* and the exit code it returned
    mayCall,      \* per process: "always", "once" or "never" calls an operation
    created,      \* history: the ids create_task returned, in order
    deleteCalled, \* history: delete_task or storage.delete has been called
    otherCalled,  \* history: an operation other than create/delete was called
    atCall,       \* history, per process: its last call, the file as the call
                  \*   found it, and whether the operation before it marked
                  \*   done (marked) or deleted (deleted) the task with the id
                  \*   of this call (that id, or 0 when it did not)
    committed,    \* history: the file as it stood when the running operations
                  \*   began, and the full content of each save begun since
    saves,        \* history: the collections passed to save since then, in the
                  \*   order in which the saves acquired LOCK_EX
    raced,        \* history: a save began when another process had loaded and
                  \*   not yet begun its own save
    lastSave,     \* history: the collection passed to the save that finished
                  \*   last, as a sequence of one element; empty before any
    ios           \* history: the storage calls of each process's operation

vars == <<fileExists, fileData, unlinked, locks, pc, call, frame, loaded, tasks, task,
          wbuf, wpos, ret, cli, mayCall, created, deleteCalled, otherCalled,
          atCall, committed, saves, raced, lastSave, ios>>

fileVars == <<fileExists, fileData, unlinked>>
retVars == <<ret, cli>>
raceVars == <<committed, saves, raced>>
histVars == <<mayCall, created, deleteCalled, otherCalled, atCall, raceVars, lastSave, ios>>

NoTask == Task(None, <<>>, MEDIUM, PENDING, [sec |-> 0, usec |-> 0])

Call(name, id, title, priority, status, t) ==
    [name |-> name, id |-> id, title |-> title, priority |-> priority,
     status |-> status, task |-> t]

NoCall == Call("", 0, <<>>, MEDIUM, "", NoTask)

\* what an operation returned, or the exception it raised: exc is the class
\* of the exception and msg its message
Ret(op, kind, exc, msg, t, list, flag) ==
    [op |-> op, kind |-> kind, exc |-> exc, msg |-> msg,
     task |-> t, list |-> list, flag |-> flag]

RetInit == Ret("", "init", "", "", NoTask, <<>>, FALSE)
RetTask(op, t) == Ret(op, "task", "", "", t, <<>>, FALSE)
RetNone(op) == Ret(op, "none", "", "", NoTask, <<>>, FALSE)
RetList(op, l) == Ret(op, "list", "", "", NoTask, l, FALSE)
RetBool(op, b) == Ret(op, "bool", "", "", NoTask, <<>>, b)
Raise(op, e) == Ret(op, "raise", e.exc, e.msg, NoTask, <<>>, FALSE)

\* raise ValueError("Task ID cannot be None")
IdNoneError == [exc |-> "ValueError", msg |-> "Task ID cannot be None"]

\* raise ValueError(f"Task with ID {task.id} does not exist")
NotExistError == [exc |-> "ValueError", msg |-> "Task with ID {task.id} does not exist"]

(* --------------------------------- cli --------------------------------- *)

\* a line print() has written: the format string and the values it holds; a
\* list prints one line per task
Printed(fmt, id, title, priority, lines) ==
    [fmt |-> fmt, id |-> id, title |-> title, priority |-> priority, lines |-> lines]

Nothing == Printed("", 0, <<>>, "", <<>>)

\* how a command ended: main returned the exit code, or an exception left
\* main and the interpreter printed its traceback and exited with status 1
Exit(command, returned, code, stdout, stderr) ==
    [command |-> command, returned |-> returned, code |-> code,
     stdout |-> stdout, stderr |-> stderr]

NoCli == Exit("", FALSE, 0, Nothing, Nothing)

\* no handler and main have an except clause: what the repository raises
\* leaves main
Propagated(command, r) ==
    Exit(command, FALSE, 1, Nothing,
         Printed("Traceback (most recent call last):", 0, <<>>, "", <<>>))

\* print(f"Error: Task #{args.id} not found.", file=sys.stderr); return 1
NotFound(command, id) ==
    Exit(command, TRUE, 1, Nothing,
         Printed("Error: Task #{args.id} not found.", id, <<>>, "", <<>>))

\* cmd_add: task = repo.create_task(...); print(...); return 0
CmdAdd(r) ==
    IF r.kind = "raise" THEN Propagated("add", r)
    ELSE Exit("add", TRUE, 0,
              Printed("Task added: #{task.id} {task.title} [{task.priority.value}]",
                      r.task.id, r.task.title, r.task.priority, <<>>),
              Nothing)

\* cmd_list: tasks = repo.get_all_tasks(status=status); "No tasks found." or
\* one line per task; return 0
CmdList(r) ==
    IF r.kind = "raise" THEN Propagated("list", r)
    ELSE IF r.list = <<>>
    THEN Exit("list", TRUE, 0, Printed("No tasks found.", 0, <<>>, "", <<>>), Nothing)
    ELSE Exit("list", TRUE, 0,
              Printed("[{status_icon}] #{task.id} {task.title} [{task.priority.value}] ({task.status.value})",
                      0, <<>>, "", r.list),
              Nothing)

\* mutant of CmdDone: the test of task is None is left out
CmdDoneNoTest(id, r) ==
    IF r.kind = "raise" THEN Propagated("done", r)
    ELSE Exit("done", TRUE, 0,
              Printed("Task #{task.id} marked as done: {task.title}",
                      r.task.id, r.task.title, "", <<>>),
              Nothing)

\* cmd_done: task = repo.mark_done(args.id); if task is None: error, return 1;
\* print(...); return 0
CmdDone(id, r) ==
    IF r.kind = "raise" THEN Propagated("done", r)
    ELSE IF r.kind = "none" THEN NotFound("done", id)
    ELSE Exit("done", TRUE, 0,
              Printed("Task #{task.id} marked as done: {task.title}",
                      r.task.id, r.task.title, "", <<>>),
              Nothing)

\* cmd_delete: deleted = repo.delete_task(args.id); if not deleted: error,
\* return 1; print(...); return 0
CmdDelete(id, r) ==
    IF r.kind = "raise" THEN Propagated("delete", r)
    ELSE IF ~r.flag THEN NotFound("delete", id)
    ELSE Exit("delete", TRUE, 0,
              Printed("Task #{args.id} deleted.", id, <<>>, "", <<>>),
              Nothing)

\* main: return handler(args, repo), for the command whose handler makes the
\* call c of the repository; get_task and update_task have no command
Main(c, r) ==
    CASE c.name = "create_task" -> CmdAdd(r)
      [] c.name = "get_all_tasks" -> CmdList(r)
      [] c.name = "mark_done" -> CmdDone(c.id, r)
      [] c.name = "delete_task" -> CmdDelete(c.id, r)
      [] OTHER -> NoCli

\* a variant of NoCommand that returns 0 after printing the help
NoCommandZero ==
    Exit("", TRUE, 0, Printed("usage: task [-h] {add,list,done,delete} ...", 0, <<>>, "", <<>>), Nothing)

\* main: if args.command is None: parser.print_help(); return 1
NoCommand ==
    Exit("", TRUE, 1, Printed("usage: task [-h] {add,list,done,delete} ...", 0, <<>>, "", <<>>), Nothing)

\* the calls of self.storage.load() and self.storage.save() an operation has made
NoIo == [loads |-> 0, saves |-> 0]

Entry(t) == [key |-> t.id, task |-> t]

\* collections an earlier run of the program left in the file
InitStores ==
    { <<>>,
      <<Entry(Task(1, <<"a">>, MEDIUM, PENDING, [sec |-> 0, usec |-> 0]))>>,
      <<Entry(Task(2, <<"b", "b">>, HIGH, PENDING, [sec |-> 0, usec |-> 0]))>>,
      <<Entry(Task(1, <<"a">>, MEDIUM, PENDING, [sec |-> 0, usec |-> 0])),
        Entry(Task(2, <<"b", "b">>, HIGH, DONE, [sec |-> 0, usec |-> 0]))>> }

\* a state of the file
File(exists, data) == [exists |-> exists, data |-> data]

\* the collections a file holds complete: none when it does not parse
Complete(exists, data) ==
    IF ~exists THEN {<<>>}
    ELSE IF LoadResult(data).exc = "" THEN {LoadResult(data).tasks}
    ELSE {}

InitProcs ==
    /\ atCall = [p \in Procs |->
                    [call |-> NoCall, exists |-> FALSE, data |-> <<>>,
                     marked |-> 0, deleted |-> 0]]
    /\ committed = {File(fileExists, fileData)}
    /\ saves = <<>>
    /\ raced = FALSE
    /\ unlinked = [p \in Procs |-> <<>>]
    /\ locks = [p \in Procs |-> ""]
    /\ pc = [p \in Procs |-> "idle"]
    /\ call = [p \in Procs |-> NoCall]
    /\ frame = [p \in Procs |-> ""]
    /\ loaded = [p \in Procs |-> Loaded(<<>>)]
    /\ tasks = [p \in Procs |-> <<>>]
    /\ task = [p \in Procs |-> NoTask]
    /\ wbuf = [p \in Procs |-> <<>>]
    /\ wpos = [p \in Procs |-> 0]
    /\ ret = [p \in Procs |-> RetInit]
    /\ cli = [p \in Procs |-> NoCli]
    /\ created = <<>>
    /\ deleteCalled = FALSE
    /\ otherCalled = FALSE
    /\ lastSave = <<>>
    /\ ios = [p \in Procs |-> NoIo]

\* processes that each run one operation (as main of cli.py does) on a file
\* that does not exist yet or that earlier runs have written
Init ==
    /\ \/ fileExists = FALSE /\ fileData = <<>>
       \/ \E d \in InitStores : fileExists = TRUE /\ fileData = Serialize(d)
    /\ mayCall = [p \in Procs |-> "once"]
    /\ InitProcs

\* one process that runs any number of operations, starting without a file
InitSeq ==
    /\ fileExists = FALSE
    /\ fileData = <<>>
    /\ mayCall = [p \in Procs |-> IF p = "p1" THEN "always" ELSE "never"]
    /\ InitProcs

\* the members load reads of every task object
Fields == {"id", "title", "status", "priority", "created_at"}

\* the members of a task object under key k that lacks one member, or whose
\* status or priority is not a value of the enum
DefectiveHeads(k) ==
    LET h == HeadTok(k, Task(k, <<"a">>, MEDIUM, PENDING, [sec |-> 0, usec |-> 0])).h
    IN  {[h EXCEPT !.absent = {f}] : f \in Fields}
            \cup {[h EXCEPT !.status = "archived"], [h EXCEPT !.priority = "urgent"]}

\* the tokens of a task object with the members h and, if it has one, the
\* title "a"
ObjectTokens(h) ==
    <<Tok("head", "", h)>> \o (IF "title" \in h.absent THEN <<>> ELSE <<Ch("a")>>)
        \o <<EndObj>>

\* documents that are JSON but hold a defective task object, alone or after
\* a sound one
DefectiveFiles ==
    {<<LBrace>> \o ObjectTokens(h) \o <<RBrace>> : h \in DefectiveHeads(1)}
        \cup {<<LBrace>>
                \o EntryTokens(Entry(Task(1, <<"a">>, MEDIUM, DONE, [sec |-> 0, usec |-> 0])))
                \o ObjectTokens(h) \o <<RBrace>> : h \in DefectiveHeads(2)}

\* contents the file can have when a command starts: an empty file, text that
\* is not JSON ("{invalid json"), a collection cut short, and the collections
\* save was given, among them one whose keys are not in ascending order and
\* timestamps with a fraction
InitFiles ==
    { <<>>,
      <<LBrace, Ch("i")>>,
      <<LBrace, HeadTok(1, Task(1, <<"a">>, MEDIUM, PENDING, [sec |-> 0, usec |-> 0])),
        Ch("a")>> }
    \cup DefectiveFiles
    \cup {Serialize(d) : d \in InitStores}
    \cup {Serialize(
            <<Entry(Task(2, <<"b", "b">>, HIGH, DONE, [sec |-> 0, usec |-> 1])),
              Entry(Task(1, <<"a">>, MEDIUM, PENDING, [sec |-> 0, usec |-> 0]))>>)}

\* one process that runs one operation on a file in any of these conditions
InitFile ==
    /\ \/ fileExists = FALSE /\ fileData = <<>>
       \/ \E f \in InitFiles : fileExists = TRUE /\ fileData = f
    /\ mayCall = [p \in Procs |-> IF p = "p1" THEN "once" ELSE "never"]
    /\ InitProcs

(* ---------------------------- JsonStorage.load ------------------------- *)

\* open(self.file_path, 'r') of a path that has no file
FileNotFound == [exc |-> "FileNotFoundError", tasks |-> <<>>]

\* p and q have the same file open: flock sets a lock on the open file, and
\* a file that was unlinked is open in one process only (there are two)
SameFile(p, q) == unlinked[p] = <<>> /\ unlinked[q] = <<>>

\* the content of the file p has open
OpenFile(p) == IF unlinked[p] # <<>> THEN unlinked[p][1] ELSE fileData

\* p writes toks at offset pos of the file it has open
WriteOpenFile(p, pos, toks) ==
    IF unlinked[p] # <<>>
    THEN /\ unlinked' = [unlinked EXCEPT ![p] = <<WriteAt(@[1], pos, toks)>>]
         /\ UNCHANGED fileData
    ELSE /\ fileData' = WriteAt(fileData, pos, toks)
         /\ UNCHANGED unlinked

\* if not self.file_path.exists(): return {}
LoadExists(p) ==
    /\ pc[p] = "load_exists"
    /\ IF fileExists
       THEN /\ pc' = [pc EXCEPT ![p] = "load_open"]
            /\ UNCHANGED loaded
       ELSE /\ pc' = [pc EXCEPT ![p] = "loaded"]
            /\ loaded' = [loaded EXCEPT ![p] = Loaded(<<>>)]
    /\ ios' = [ios EXCEPT ![p].loads = @ + 1]
    /\ UNCHANGED <<fileVars, locks, call, frame, tasks, task, wbuf, wpos, retVars,
                   mayCall, created, deleteCalled, otherCalled, atCall, raceVars, lastSave>>

\* with open(self.file_path, 'r') as f:
LoadOpen(p) ==
    /\ pc[p] = "load_open"
    /\ IF fileExists
       THEN /\ pc' = [pc EXCEPT ![p] = "load_lock"]
            /\ UNCHANGED loaded
       ELSE /\ pc' = [pc EXCEPT ![p] = "loaded"]
            /\ loaded' = [loaded EXCEPT ![p] = FileNotFound]
    /\ UNCHANGED <<fileVars, locks, call, frame, tasks, task, wbuf, wpos, retVars, histVars>>

\* mutant of CanLockShared: the lock is taken as LOCK_EX
CanLockSharedAlone(p) == \A q \in Procs \ {p} : SameFile(p, q) => locks[q] = ""

\* LOCK_SH is granted unless another process holds LOCK_EX on the file
CanLockShared(p) == \A q \in Procs \ {p} : SameFile(p, q) => locks[q] # "ex"

\* fcntl.flock(f.fileno(), fcntl.LOCK_SH): waits while another holds LOCK_EX
LoadLock(p) ==
    /\ pc[p] = "load_lock"
    /\ CanLockShared(p)
    /\ locks' = [locks EXCEPT ![p] = "sh"]
    /\ pc' = [pc EXCEPT ![p] = "load_read"]
    /\ UNCHANGED <<fileVars, call, frame, loaded, tasks, task, wbuf, wpos, retVars, histVars>>

\* content = f.read().strip(); if not content: return {}; json.loads(content)
\* (no token of the model is whitespace)
LoadRead(p) ==
    /\ pc[p] = "load_read"
    /\ loaded' = [loaded EXCEPT ![p] = LoadResult(OpenFile(p))]
    /\ pc' = [pc EXCEPT ![p] = "load_unlock"]
    /\ UNCHANGED <<fileVars, locks, call, frame, tasks, task, wbuf, wpos, retVars, histVars>>

\* finally: fcntl.flock(f.fileno(), fcntl.LOCK_UN), on every path out of try
LoadUnlock(p) ==
    /\ pc[p] = "load_unlock"
    /\ locks' = [locks EXCEPT ![p] = ""]
    /\ pc' = [pc EXCEPT ![p] = "loaded"]
    /\ unlinked' = [unlinked EXCEPT ![p] = <<>>]
    /\ UNCHANGED <<fileExists, fileData, call, frame, loaded, tasks, task, wbuf, wpos, retVars, histVars>>

(* ---------------------------- JsonStorage.save ------------------------- *)

\* open(self.file_path, 'w'): creates the file or empties it, offset 0
SaveOpen(p) ==
    /\ pc[p] = "save_open"
    /\ fileExists' = TRUE
    /\ fileData' = <<>>
    /\ unlinked' = [unlinked EXCEPT ![p] = <<>>]
    /\ wpos' = [wpos EXCEPT ![p] = 0]
    /\ wbuf' = [wbuf EXCEPT ![p] = Serialize(tasks[p])]
    /\ pc' = [pc EXCEPT ![p] = "save_lock"]
    /\ committed' = committed \cup {File(TRUE, Serialize(tasks[p]))}
    /\ raced' = (raced \/ \E q \in Procs \ {p} :
                              /\ pc[q] \in {"load_unlock", "loaded", "save_open"}
                              /\ frame[q] \in {"create_task", "update_task", "delete_task"})
    /\ ios' = [ios EXCEPT ![p].saves = @ + 1]
    /\ UNCHANGED <<locks, call, frame, loaded, tasks, task, retVars,
                   mayCall, created, deleteCalled, otherCalled, atCall, saves, lastSave>>

\* fcntl.flock(f.fileno(), fcntl.LOCK_EX): waits while another holds a lock
SaveLock(p) ==
    /\ pc[p] = "save_lock"
    /\ \A q \in Procs \ {p} : SameFile(p, q) => locks[q] = ""
    /\ locks' = [locks EXCEPT ![p] = "ex"]
    /\ pc' = [pc EXCEPT ![p] = "save_dump"]
    /\ saves' = Append(saves, tasks[p])
    /\ UNCHANGED <<fileVars, call, frame, loaded, tasks, task, wbuf, wpos, retVars,
                   mayCall, created, deleteCalled, otherCalled, atCall, committed, raced,
                   lastSave, ios>>

\* json.dump(serializable_tasks, f, indent=2): f is buffered, a full buffer
\* is written to the file at the offset
SaveDump(p) ==
    /\ pc[p] = "save_dump"
    /\ Len(wbuf[p]) > BufTokens
    /\ WriteOpenFile(p, wpos[p], SubSeq(wbuf[p], 1, BufTokens))
    /\ wpos' = [wpos EXCEPT ![p] = wpos[p] + BufTokens]
    /\ wbuf' = [wbuf EXCEPT ![p] = SubSeq(wbuf[p], BufTokens + 1, Len(wbuf[p]))]
    /\ UNCHANGED <<fileExists, locks, pc, call, frame, loaded, tasks, task, retVars, histVars>>

\* finally: fcntl.flock(f.fileno(), fcntl.LOCK_UN)
SaveUnlock(p) ==
    /\ pc[p] = "save_dump"
    /\ Len(wbuf[p]) <= BufTokens
    /\ locks' = [locks EXCEPT ![p] = ""]
    /\ pc' = [pc EXCEPT ![p] = "save_close"]
    /\ UNCHANGED <<fileVars, call, frame, loaded, tasks, task, wbuf, wpos, retVars, histVars>>

\* leaving the with block closes f, which writes what the buffer still holds
SaveClose(p) ==
    /\ pc[p] = "save_close"
    /\ IF unlinked[p] # <<>>
       THEN /\ unlinked' = [unlinked EXCEPT ![p] = <<>>]
            /\ UNCHANGED <<fileData, lastSave>>
       ELSE /\ fileData' = WriteAt(fileData, wpos[p], wbuf[p])
            /\ lastSave' = <<tasks[p]>>
            /\ UNCHANGED unlinked
    /\ wpos' = [wpos EXCEPT ![p] = 0]
    /\ wbuf' = [wbuf EXCEPT ![p] = <<>>]
    /\ pc' = [pc EXCEPT ![p] = "saved"]
    /\ UNCHANGED <<fileExists, locks, call, frame, loaded, tasks, task, retVars,
                   mayCall, created, deleteCalled, otherCalled, atCall, raceVars, ios>>

(* ---------------------------- TaskRepository --------------------------- *)

\* p calls the public operation c: the method fr starts at label, and the
\* caller has consumed what the operation before returned
Enter(p, c, fr, label) ==
    /\ pc[p] = "idle"
    /\ mayCall[p] # "never"
    /\ mayCall' = [mayCall EXCEPT ![p] = IF @ = "once" THEN "never" ELSE @]
    /\ call' = [call EXCEPT ![p] = c]
    /\ frame' = [frame EXCEPT ![p] = fr]
    /\ pc' = [pc EXCEPT ![p] = label]
    /\ ret' = [ret EXCEPT ![p] = RetInit]
    /\ cli' = [cli EXCEPT ![p] = NoCli]
    /\ ios' = [ios EXCEPT ![p] = NoIo]
    /\ atCall' = [atCall EXCEPT ![p] =
                     [call |-> c, exists |-> fileExists, data |-> fileData,
                      marked |-> IF /\ ret[p].op = "mark_done" /\ ret[p].kind = "task"
                                    /\ c.name = "mark_done" /\ c.id = ret[p].task.id
                                 THEN c.id ELSE 0,
                      deleted |-> IF /\ ret[p].op = "delete_task" /\ ret[p].flag
                                     /\ c.name = "get_task" /\ c.id = atCall[p].call.id
                                  THEN c.id ELSE 0]]
    /\ IF \A q \in Procs \ {p} : pc[q] = "idle"
       THEN /\ committed' = {File(fileExists, fileData)}
            /\ saves' = <<>>
            /\ raced' = FALSE
       ELSE UNCHANGED raceVars

\* the operation of p returns or raises r; its local variables are gone
Return(p, r) ==
    /\ pc' = [pc EXCEPT ![p] = "idle"]
    /\ ret' = [ret EXCEPT ![p] = r]
    /\ cli' = [cli EXCEPT ![p] = Main(call[p], r)]
    /\ call' = [call EXCEPT ![p] = NoCall]
    /\ frame' = [frame EXCEPT ![p] = ""]
    /\ loaded' = [loaded EXCEPT ![p] = Loaded(<<>>)]
    /\ tasks' = [tasks EXCEPT ![p] = <<>>]
    /\ task' = [task EXCEPT ![p] = NoTask]

\* the method of p goes on to self.storage.save(ts), ts being the loaded dict
\* as the method changed it, and its local task being t
ToSave(p, ts, t) ==
    /\ pc' = [pc EXCEPT ![p] = "save_open"]
    /\ tasks' = [tasks EXCEPT ![p] = ts]
    /\ task' = [task EXCEPT ![p] = t]
    /\ loaded' = [loaded EXCEPT ![p] = Loaded(<<>>)]
    /\ UNCHANGED <<retVars, call, frame>>

\* an exception of load propagates through the method to the caller
LoadRaised(p) == Return(p, Raise(call[p].name, [exc |-> loaded[p].exc, msg |-> ""]))

\* repo.create_task(title, priority)
CallCreateTask(p) ==
    /\ Len(created) + Cardinality({q \in Procs : call[q].name = "create_task"}) < MaxCreates
    /\ \E a \in ArgTitles :
           Enter(p, Call("create_task", 0, a.title, a.priority, "", NoTask),
                 "create_task", "load_exists")
    /\ UNCHANGED <<fileVars, locks, loaded, tasks, task, wbuf, wpos,
                   created, deleteCalled, otherCalled, lastSave>>

\* mutant of NewId: the instance counts the ids it has handed out
NewIdCounter(p) == Len(created) + 1

\* next_id = max(tasks.keys(), default=0) + 1, on the dict just loaded
NewId(p) == NextId(loaded[p].tasks)

\* create_task after tasks = self.storage.load(), up to self.storage.save(tasks)
CreateAfterLoad(p) ==
    /\ pc[p] = "loaded" /\ frame[p] = "create_task"
    /\ IF loaded[p].exc # "" THEN LoadRaised(p)
       ELSE \E now \in Datetimes :
               LET next_id == NewId(p)
                   t == Task(next_id, call[p].title, call[p].priority, PENDING, now)
               IN  ToSave(p, Put(loaded[p].tasks, next_id, t), t)
    /\ UNCHANGED <<fileVars, locks, wbuf, wpos, histVars>>

\* create_task: return task
CreateReturn(p) ==
    /\ pc[p] = "saved" /\ frame[p] = "create_task"
    /\ Return(p, RetTask("create_task", task[p]))
    /\ created' = Append(created, task[p].id)
    /\ UNCHANGED <<fileVars, locks, wbuf, wpos, mayCall, deleteCalled, otherCalled,
                   atCall, raceVars, lastSave, ios>>

\* repo.get_all_tasks(status), status "" for None
CallGetAllTasks(p) ==
    /\ \E status \in Status \cup {""} :
           Enter(p, Call("get_all_tasks", 0, <<>>, MEDIUM, status, NoTask), "get_all_tasks", "load_exists")
    /\ otherCalled' = TRUE
    /\ UNCHANGED <<fileVars, locks, loaded, tasks, task, wbuf, wpos,
                   created, deleteCalled, lastSave>>

RECURSIVE SortedSeq(_)
\* sorted(keys)
SortedSeq(S) ==
    IF S = {} THEN <<>>
    ELSE LET m == CHOOSE x \in S : \A y \in S : x <= y
         IN  <<m>> \o SortedSeq(S \ {m})

\* mutant of FilterStatus: the filter is not applied
FilterNothing(d, status) == d

\* {task_id: task for task_id, task in tasks.items() if task.status == status}
FilterStatus(d, status) ==
    IF status = "" THEN d ELSE SelectSeq(d, LAMBDA e : e.task.status = status)

\* mutant of SortedTasks: list(tasks.values()), the order of the dict
ValuesInDictOrder(d) == [i \in DOMAIN d |-> d[i].task]

\* [tasks[task_id] for task_id in sorted(tasks.keys())]
SortedTasks(d) ==
    LET ks == SortedSeq(Keys(d)) IN [i \in DOMAIN ks |-> GetTask(d, ks[i])]

\* get_all_tasks after the load
GetAllTasksReturn(p) ==
    /\ pc[p] = "loaded" /\ frame[p] = "get_all_tasks"
    /\ IF loaded[p].exc # "" THEN LoadRaised(p)
       ELSE Return(p, RetList("get_all_tasks",
                              SortedTasks(FilterStatus(loaded[p].tasks, call[p].status))))
    /\ UNCHANGED <<fileVars, locks, wbuf, wpos, histVars>>

\* repo.get_task(task_id)
CallGetTask(p) ==
    /\ \E id \in ArgIds :
           Enter(p, Call("get_task", id, <<>>, MEDIUM, "", NoTask), "get_task", "load_exists")
    /\ otherCalled' = TRUE
    /\ UNCHANGED <<fileVars, locks, loaded, tasks, task, wbuf, wpos,
                   created, deleteCalled, lastSave>>

\* mutant of DictGet: a missing key yields the first task of the dict
DictGetFirst(op, d, k) ==
    IF k \in Keys(d) THEN RetTask(op, GetTask(d, k))
    ELSE IF d # <<>> THEN RetTask(op, d[1].task) ELSE RetNone(op)

\* tasks.get(task_id)
DictGet(op, d, k) == IF k \in Keys(d) THEN RetTask(op, GetTask(d, k)) ELSE RetNone(op)

\* get_task: return tasks.get(task_id)
GetTaskReturn(p) ==
    /\ pc[p] = "loaded" /\ frame[p] = "get_task" /\ call[p].name = "get_task"
    /\ IF loaded[p].exc # "" THEN LoadRaised(p)
       ELSE Return(p, DictGet("get_task", loaded[p].tasks, call[p].id))
    /\ UNCHANGED <<fileVars, locks, wbuf, wpos, histVars>>

\* the tasks callers pass to update_task
ArgTasks ==
    {Task(id, a.title, a.priority, status,
          IF a.priority = MEDIUM THEN [sec |-> 0, usec |-> 0] ELSE [sec |-> 0, usec |-> 1]) :
        id \in {None} \cup ArgIds, a \in ArgTitles, status \in Status}

\* repo.update_task(task)
CallUpdateTask(p) ==
    /\ \E t \in ArgTasks :
          /\ Enter(p, Call("update_task", 0, <<>>, MEDIUM, "", t), "update_task", "update_task")
          /\ task' = [task EXCEPT ![p] = t]
    /\ otherCalled' = TRUE
    /\ UNCHANGED <<fileVars, locks, loaded, tasks, wbuf, wpos, created, deleteCalled,
                   lastSave>>

\* mutant of IdIsNone: the check is left out
IdIsNoneNever(t) == FALSE

\* task.id is None
IdIsNone(t) == t.id = None

\* update_task: if task.id is None: raise ValueError; tasks = self.storage.load()
UpdateCheckId(p) ==
    /\ pc[p] = "update_task"
    /\ IF IdIsNone(task[p])
       THEN Return(p, Raise(call[p].name, IdNoneError))
       ELSE /\ pc' = [pc EXCEPT ![p] = "load_exists"]
            /\ UNCHANGED <<retVars, call, frame, loaded, tasks, task>>
    /\ UNCHANGED <<fileVars, locks, wbuf, wpos, histVars>>

\* mutant of IdMissing: the check is left out, update_task inserts
IdMissingNever(t, d) == FALSE

\* task.id not in tasks
IdMissing(t, d) == t.id \notin Keys(d)

\* update_task after the load: if task.id not in tasks: raise ValueError
UpdateAfterLoad(p) ==
    /\ pc[p] = "loaded" /\ frame[p] = "update_task"
    /\ IF loaded[p].exc # "" THEN LoadRaised(p)
       ELSE IF IdMissing(task[p], loaded[p].tasks)
       THEN Return(p, Raise(call[p].name, NotExistError))
       ELSE ToSave(p, Put(loaded[p].tasks, task[p].id, task[p]), task[p])
    /\ UNCHANGED <<fileVars, locks, wbuf, wpos, histVars>>

\* update_task: return task (to the caller, or through mark_done)
UpdateReturn(p) ==
    /\ pc[p] = "saved" /\ frame[p] = "update_task"
    /\ Return(p, RetTask(call[p].name, task[p]))
    /\ UNCHANGED <<fileVars, locks, wbuf, wpos, histVars>>

\* repo.delete_task(task_id)
CallDeleteTask(p) ==
    /\ \E id \in ArgIds :
           Enter(p, Call("delete_task", id, <<>>, MEDIUM, "", NoTask), "delete_task", "load_exists")
    /\ deleteCalled' = TRUE
    /\ UNCHANGED <<fileVars, locks, loaded, tasks, task, wbuf, wpos,
                   created, otherCalled, lastSave>>

\* delete_task after the load: if task_id not in tasks: return False
\* a variant of IdAbsent that finds every id
IdAbsentNever(id, d) == FALSE

\* task_id not in tasks
IdAbsent(id, d) == id \notin Keys(d)

DeleteAfterLoad(p) ==
    /\ pc[p] = "loaded" /\ frame[p] = "delete_task"
    /\ IF loaded[p].exc # "" THEN LoadRaised(p)
       ELSE IF IdAbsent(call[p].id, loaded[p].tasks)
       THEN Return(p, RetBool("delete_task", FALSE))
       ELSE ToSave(p, Del(loaded[p].tasks, call[p].id), task[p])
    /\ UNCHANGED <<fileVars, locks, wbuf, wpos, histVars>>

\* delete_task: return True
DeleteReturn(p) ==
    /\ pc[p] = "saved" /\ frame[p] = "delete_task"
    /\ Return(p, RetBool("delete_task", TRUE))
    /\ UNCHANGED <<fileVars, locks, wbuf, wpos, histVars>>

\* mutant of SetDone: the status is toggled
SetDoneToggle(t) == [t EXCEPT !.status = IF @ = DONE THEN PENDING ELSE DONE]

\* mutant of SetDone: a new Done task with the default priority takes its place
SetDoneFresh(t) == Task(t.id, t.title, MEDIUM, DONE, t.created_at)

\* task.status = Status.DONE
SetDone(t) == [t EXCEPT !.status = DONE]

\* repo.mark_done(task_id): task = self.get_task(task_id)
CallMarkDone(p) ==
    /\ \E id \in ArgIds :
           Enter(p, Call("mark_done", id, <<>>, MEDIUM, "", NoTask), "get_task", "load_exists")
    /\ otherCalled' = TRUE
    /\ UNCHANGED <<fileVars, locks, loaded, tasks, task, wbuf, wpos,
                   created, deleteCalled, lastSave>>

\* mark_done after get_task: if task is None: return None;
\* task.status = Status.DONE; return self.update_task(task)
MarkDoneAfterGet(p) ==
    /\ pc[p] = "loaded" /\ frame[p] = "get_task" /\ call[p].name = "mark_done"
    /\ IF loaded[p].exc # "" THEN LoadRaised(p)
       ELSE IF call[p].id \notin Keys(loaded[p].tasks)
       THEN Return(p, RetNone("mark_done"))
       ELSE /\ task' = [task EXCEPT ![p] = SetDone(GetTask(loaded[p].tasks, call[p].id))]
            /\ frame' = [frame EXCEPT ![p] = "update_task"]
            /\ pc' = [pc EXCEPT ![p] = "update_task"]
            /\ loaded' = [loaded EXCEPT ![p] = Loaded(<<>>)]
            /\ UNCHANGED <<retVars, call, tasks>>
    /\ UNCHANGED <<fileVars, locks, wbuf, wpos, histVars>>

(* --------------------------- JsonStorage.delete ------------------------ *)

\* storage.delete()
CallDelete(p) ==
    /\ Enter(p, Call("delete", 0, <<>>, MEDIUM, "", NoTask), "delete", "delete_exists")
    /\ otherCalled' = TRUE
    /\ deleteCalled' = TRUE
    /\ UNCHANGED <<fileVars, locks, loaded, tasks, task, wbuf, wpos,
                   created, lastSave>>

\* if self.file_path.exists():
DeleteExists(p) ==
    /\ pc[p] = "delete_exists"
    /\ IF fileExists
       THEN /\ pc' = [pc EXCEPT ![p] = "delete_unlink"]
            /\ UNCHANGED <<retVars, call, frame, loaded, tasks, task>>
       ELSE Return(p, RetNone("delete"))
    /\ UNCHANGED <<fileVars, locks, wbuf, wpos, histVars>>

\* p has a file open
HasOpen(p) ==
    pc[p] \in {"load_lock", "load_read", "load_unlock", "save_lock", "save_dump", "save_close",
               "save_finally", "save_close_raised"}

\* self.file_path.unlink(): removes the name; a process that has the file
\* open keeps it; raises FileNotFoundError when the path has no file
DeleteUnlink(p) ==
    /\ pc[p] = "delete_unlink"
    /\ IF fileExists
       THEN /\ fileExists' = FALSE
            /\ fileData' = <<>>
            /\ unlinked' = [q \in Procs |->
                               IF HasOpen(q) /\ unlinked[q] = <<>>
                               THEN <<fileData>> ELSE unlinked[q]]
            /\ committed' = committed \cup {File(FALSE, <<>>)}
            /\ lastSave' = <<>>
            /\ Return(p, RetNone("delete"))
       ELSE /\ Return(p, Raise("delete", [exc |-> "FileNotFoundError", msg |-> ""]))
            /\ UNCHANGED <<fileVars, committed, lastSave>>
    /\ UNCHANGED <<locks, wbuf, wpos, mayCall, created, deleteCalled, otherCalled,
                   atCall, saves, raced, ios>>

(* ---------------------------- specifications --------------------------- *)

\* main(argv) with no subcommand: the help is printed and main returns before
\* it constructs the repository, so the invocation makes no call at all
MainNoCommand(p) ==
    /\ pc[p] = "idle"
    /\ mayCall[p] # "never"
    /\ mayCall' = [mayCall EXCEPT ![p] = IF @ = "once" THEN "never" ELSE @]
    /\ ret' = [ret EXCEPT ![p] = RetInit]
    /\ cli' = [cli EXCEPT ![p] = NoCommand]
    /\ ios' = [ios EXCEPT ![p] = NoIo]
    /\ atCall' = [atCall EXCEPT ![p] =
                     [call |-> NoCall, exists |-> fileExists, data |-> fileData,
                      marked |-> 0, deleted |-> 0]]
    /\ IF \A q \in Procs \ {p} : pc[q] = "idle"
       THEN /\ committed' = {File(fileExists, fileData)}
            /\ saves' = <<>>
            /\ raced' = FALSE
       ELSE UNCHANGED raceVars
    /\ UNCHANGED <<fileVars, locks, pc, call, frame, loaded, tasks, task, wbuf, wpos,
                   created, deleteCalled, otherCalled, lastSave>>

Step(p) ==
    \/ CallCreateTask(p) \/ CreateAfterLoad(p) \/ CreateReturn(p)
    \/ CallGetAllTasks(p) \/ GetAllTasksReturn(p)
    \/ CallGetTask(p) \/ GetTaskReturn(p)
    \/ CallUpdateTask(p) \/ UpdateCheckId(p) \/ UpdateAfterLoad(p) \/ UpdateReturn(p)
    \/ CallDeleteTask(p) \/ DeleteAfterLoad(p) \/ DeleteReturn(p)
    \/ CallMarkDone(p) \/ MarkDoneAfterGet(p)
    \/ CallDelete(p) \/ DeleteExists(p) \/ DeleteUnlink(p)
    \/ MainNoCommand(p)
    \/ LoadExists(p) \/ LoadOpen(p) \/ LoadLock(p) \/ LoadRead(p) \/ LoadUnlock(p)
    \/ SaveOpen(p) \/ SaveLock(p) \/ SaveDump(p) \/ SaveUnlock(p) \/ SaveClose(p)

\* the processes take their steps in any order
Next == \E p \in Procs : Step(p)

\* processes that run one operation each on a shared file
Spec == Init /\ [][Next]_vars

(* ------------------- JsonStorage.save when a write fails ---------------- *)

\* what a write to the file raises when the device cannot take it
WriteError == [exc |-> "OSError", msg |-> ""]

\* json.dump raises inside the try block: f's buffer is full and writing it
\* to the file fails; control passes to the finally clause, the lock held
SaveDumpRaises(p) ==
    /\ pc[p] = "save_dump"
    /\ Len(wbuf[p]) > BufTokens
    /\ pc' = [pc EXCEPT ![p] = "save_finally"]
    /\ UNCHANGED <<fileVars, locks, call, frame, loaded, tasks, task, wbuf, wpos, retVars,
                   histVars>>

\* a variant of SaveUnlockRaised for a save without the finally clause
SaveRaisedNoFinally(p) ==
    /\ pc[p] = "save_finally"
    /\ pc' = [pc EXCEPT ![p] = "save_close_raised"]
    /\ UNCHANGED <<fileVars, locks, call, frame, loaded, tasks, task, wbuf, wpos, retVars,
                   histVars>>

\* finally: fcntl.flock(f.fileno(), fcntl.LOCK_UN), the exception pending
SaveUnlockRaised(p) ==
    /\ pc[p] = "save_finally"
    /\ locks' = [locks EXCEPT ![p] = ""]
    /\ pc' = [pc EXCEPT ![p] = "save_close_raised"]
    /\ UNCHANGED <<fileVars, call, frame, loaded, tasks, task, wbuf, wpos, retVars, histVars>>

\* the exception leaves the with block, which closes f: the close writes the
\* buffer, all of it, a part or nothing; then the exception leaves save and
\* the operation that called it
SaveCloseRaised(p) ==
    /\ pc[p] = "save_close_raised"
    /\ \E n \in 0..BufTokens : WriteOpenFile(p, wpos[p], SubSeq(wbuf[p], 1, n))
    /\ wpos' = [wpos EXCEPT ![p] = 0]
    /\ wbuf' = [wbuf EXCEPT ![p] = <<>>]
    /\ Return(p, Raise(call[p].name, WriteError))
    /\ UNCHANGED <<fileExists, locks, histVars>>

\* the steps of a process whose writes can fail
NextIo ==
    \/ Next
    \/ \E p \in Procs : SaveDumpRaises(p) \/ SaveUnlockRaised(p) \/ SaveCloseRaised(p)

\* one process that runs one operation on a file in any condition, on a
\* device that can fail a write
SpecIo == InitFile /\ [][NextIo]_vars

\* one process that runs operation after operation, from an empty store
SpecSeq == InitSeq /\ [][Next]_vars

\* one process that runs one operation on a file in any condition
SpecFile == InitFile /\ [][Next]_vars

(* -------------------------------- claims ------------------------------- *)

\* the operation op of p has returned or raised, and p has called nothing since
Returned(p, op) == pc[p] = "idle" /\ ret[p].op = op

\* the collections the file held complete when p made its last call
BeforeCall(p) == Complete(atCall[p].exists, atCall[p].data)

\* the collections the file holds complete now
Stored == Complete(fileExists, fileData)

AllIdle == \A p \in Procs : pc[p] = "idle"

\* C1: when one process, starting from an empty store, calls only create_task
\* and delete_task, create_task never returns an id that an earlier
\* create_task returned.
C1_NoIdReuse ==
    ~otherCalled => \A i, j \in DOMAIN created : i # j => created[i] # created[j]

\* C2: create_task(title, priority) on a store holding C returns a Pending
\* task with the given title and priority whose id is 1 when C is empty and
\* the largest id of C plus one otherwise; the store then holds C followed by
\* exactly that task under that id.
C2_CreateTask ==
    \A p \in Procs :
        Returned(p, "create_task") =>
            /\ ret[p].kind = "task"
            /\ BeforeCall(p) # {}
            /\ \A C \in BeforeCall(p) :
                  LET t == ret[p].task
                  IN  /\ \A k \in Keys(C) : k < t.id
                      /\ t.id = 1 \/ (t.id - 1) \in Keys(C)
                      /\ t.status = PENDING
                      /\ t.title = atCall[p].call.title
                      /\ t.priority = atCall[p].call.priority
                      /\ Stored = {Append(C, [key |-> t.id, task |-> t])}

\* create_task has returned the task with id 2 on a store that held a task
C2_Witness ==
    \E p \in Procs :
        /\ Returned(p, "create_task")
        /\ ret[p].task.id = 2
        /\ ret[p].task.priority = HIGH
        /\ \E C \in BeforeCall(p) : Len(C) = 1

\* C3: from an empty store, as long as one process has called no delete_task,
\* the k-th create_task returns id k.
C3_SequentialIds ==
    ~deleteCalled => \A k \in DOMAIN created : created[k] = k

\* two create_task calls have returned and delete_task was never called
C3_Witness == ~deleteCalled /\ Len(created) >= 2

\* C4: every load returns, without failing, a collection that the file held
\* complete before a save began or that was passed to a save.
C4_LoadSeesCompleteContent ==
    \A p \in Procs :
        pc[p] \in {"load_unlock", "loaded"} =>
            /\ loaded[p].exc = ""
            /\ \E f \in committed : loaded[p].tasks \in Complete(f.exists, f.data)

\* C5: when concurrent saves have all finished, the file is the full
\* serialization of the collection passed to one of them.
C5_NoMixedContent ==
    (AllIdle /\ Len(saves) >= 2) =>
        (fileExists /\ \E i \in DOMAIN saves : fileData = Serialize(saves[i]))

\* C6: when concurrent saves have all finished, the file holds the collection
\* of the save that acquired the exclusive lock last.
C6_LastLockerWins ==
    (AllIdle /\ Len(saves) >= 2) => Stored = {saves[Len(saves)]}

\* C7: save empties the file and writes to it only while it holds the
\* exclusive lock, and while a process holds the exclusive lock no other
\* process holds a lock.
C7_WritesUnderExclusiveLock ==
    /\ [][\A p \in Procs :
             (SaveOpen(p) \/ SaveDump(p) \/ SaveClose(p)) => locks[p] = "ex"]_vars
    /\ [](\A p \in Procs : locks[p] = "ex" => \A q \in Procs \ {p} : locks[q] = "")

\* C8: when two processes run mutating operations and both load before
\* either saves, the file ends up holding the collection saved last, and two
\* such create_task calls return the same id.
C8_LastSaveWins ==
    (AllIdle /\ raced /\ Len(saves) = 2) =>
        /\ Stored = {saves[2]}
        /\ \A p, q \in Procs :
              (Returned(p, "create_task") /\ Returned(q, "create_task")) =>
                  ret[p].task.id = ret[q].task.id

\* two create_task calls returned the same id and the store holds one task
\* under it: the task of one of the two calls
C8_LostUpdateReached ==
    /\ AllIdle /\ raced
    /\ Returned("p1", "create_task") /\ Returned("p2", "create_task")
    /\ ret["p1"].task.id = ret["p2"].task.id
    /\ ret["p1"].task # ret["p2"].task
    /\ \E C \in Stored :
          /\ ret["p2"].task.id \in Keys(C)
          /\ GetTask(C, ret["p2"].task.id) = ret["p2"].task

\* C9: mark_done(id) does not fail because the task does not exist (the
\* ValueError of update_task), also when another process deletes the task
\* while the call is running.
C9_MarkDoneNeverRaises ==
    \A p, q \in Procs :
        (/\ Returned(p, "mark_done")
         /\ Returned(q, "delete_task") /\ ret[q].flag
         /\ atCall[q].call.id = atCall[p].call.id)
            => ~(ret[p].kind = "raise" /\ ret[p].exc = "ValueError")

\* C10: mark_done(id) on an existing id returns a Done task, and so does a
\* second mark_done(id) right after it, which leaves the store as the first
\* call left it.
C10_MarkDoneIdempotent ==
    \A p \in Procs :
        Returned(p, "mark_done") =>
            /\ BeforeCall(p) # {}
            /\ \A C \in BeforeCall(p) :
                  /\ atCall[p].call.id \in Keys(C) =>
                        (ret[p].kind = "task" /\ ret[p].task.status = DONE)
                  /\ atCall[p].marked = atCall[p].call.id =>
                        /\ ret[p].kind = "task"
                        /\ ret[p].task.status = DONE
                        /\ Stored = {C}

\* mark_done(id) has returned right after a mark_done(id) that returned a task
C10_Witness ==
    \E p \in Procs :
        /\ Returned(p, "mark_done")
        /\ atCall[p].marked = atCall[p].call.id
        /\ ret[p].kind = "task"

\* an operation of the repository that p called has returned or raised, and
\* p has called nothing since
Finished(p) == pc[p] = "idle" /\ ret[p].op \notin {"", "delete"}

\* p's last call was update_task with a task of id k and status Pending
UpdatedToPending(p, k) ==
    /\ atCall[p].call.name = "update_task"
    /\ atCall[p].call.task.id = k
    /\ atCall[p].call.task.status = PENDING

\* C11: under any sequence of repository operations (create_task,
\* update_task, delete_task, mark_done), a task that is stored with status
\* Done before an operation is stored with status Done after it, if it still
\* exists.
C11_DoneNeverReverts ==
    \A p \in Procs :
        Finished(p) =>
            \A C \in BeforeCall(p), S \in Stored :
                \A k \in Keys(C) \cap Keys(S) :
                    GetTask(C, k).status = DONE => GetTask(S, k).status = DONE

\* C11 as amended: a task stored with status Done before an operation is
\* stored with status Done after it, if it still exists, unless the operation
\* is update_task given a task of that id with status Pending.
C11_DoneKeptUnlessUpdated ==
    \A p \in Procs :
        Finished(p) =>
            \A C \in BeforeCall(p), S \in Stored :
                \A k \in Keys(C) \cap Keys(S) :
                    (GetTask(C, k).status = DONE /\ ~UpdatedToPending(p, k))
                        => GetTask(S, k).status = DONE

\* update_task has replaced a Done task by a Done task with another title,
\* and mark_done has returned for a task that was Done
C11_Witness ==
    \E p \in Procs :
        /\ Finished(p)
        /\ atCall[p].call.name \in {"update_task", "mark_done"}
        /\ ret[p].kind = "task"
        /\ \E C \in BeforeCall(p), S \in Stored :
              /\ ret[p].task.id \in Keys(C) \cap Keys(S)
              /\ GetTask(C, ret[p].task.id).status = DONE
              /\ GetTask(S, ret[p].task.id).status = DONE
              /\ atCall[p].call.name = "update_task" =>
                    GetTask(C, ret[p].task.id).title # ret[p].task.title

\* no process other than p has called an operation that saves
NoWriter(p) ==
    \A q \in Procs \ {p} :
        \/ atCall[q].call.name \in {"", "get_task", "get_all_tasks"}
        \/ atCall[q].call.name = "update_task" /\ atCall[q].call.task.id = None

\* update_task of p has finished, and it was given a task without an id
UpdateIdUnset(p) ==
    Returned(p, "update_task") /\ atCall[p].call.task.id = None

\* update_task of p has finished while no other process was writing, and it
\* was given a task with an id that the collection did not hold
UpdateIdUnknown(p) ==
    /\ Returned(p, "update_task") /\ NoWriter(p)
    /\ atCall[p].call.task.id # None
    /\ BeforeCall(p) # {}
    /\ \A C \in BeforeCall(p) : atCall[p].call.task.id \notin Keys(C)

\* C12: update_task fails when the task's id is unset and when the id is set
\* but not in the collection, and the two failures are of distinct error
\* kinds.
C12_DistinctErrorKinds ==
    \A p, q \in Procs :
        /\ UpdateIdUnset(p) => ret[p].kind = "raise"
        /\ UpdateIdUnknown(q) => ret[q].kind = "raise"
        /\ (UpdateIdUnset(p) /\ UpdateIdUnknown(q)) => ret[p].exc # ret[q].exc

\* C12 as amended: both failures are a ValueError, the first with the message
\* "Task ID cannot be None", the second with the message "Task with ID {id}
\* does not exist": one error kind, told apart by the message only.
C12_SameKindDistinctMessage ==
    \A p, q \in Procs :
        /\ UpdateIdUnset(p) =>
              /\ ret[p].kind = "raise" /\ ret[p].exc = "ValueError"
              /\ ret[p].msg = "Task ID cannot be None"
        /\ UpdateIdUnknown(q) =>
              /\ ret[q].kind = "raise" /\ ret[q].exc = "ValueError"
              /\ ret[q].msg = "Task with ID {task.id} does not exist"
        /\ (UpdateIdUnset(p) /\ UpdateIdUnknown(q)) =>
              (ret[p].exc = ret[q].exc /\ ret[p].msg # ret[q].msg)

\* one update_task has failed on an unset id and another on an unknown id
C12_Witness ==
    \E p, q \in Procs : UpdateIdUnset(p) /\ UpdateIdUnknown(q)

\* C13: update_task(task) with an id that the collection holds replaces the
\* task stored under that id by the given task, persists the collection and
\* returns the task; every other task and the set of ids stay as they were.
C13_UpdateTask ==
    \A p \in Procs :
        Returned(p, "update_task") =>
            /\ BeforeCall(p) # {}
            /\ \A C \in BeforeCall(p) :
                  LET t == atCall[p].call.task
                  IN  t.id \in Keys(C) =>
                        /\ ret[p].kind = "task"
                        /\ ret[p].task = t
                        /\ Stored # {}
                        /\ \A S \in Stored :
                              /\ Keys(S) = Keys(C)
                              /\ GetTask(S, t.id) = t
                              /\ \A k \in Keys(C) \ {t.id} :
                                    GetTask(S, k) = GetTask(C, k)

\* update_task has replaced one of two stored tasks by a different task
C13_Witness ==
    \E p \in Procs :
        /\ Returned(p, "update_task")
        /\ ret[p].kind = "task"
        /\ \E C \in BeforeCall(p) :
              /\ Cardinality(Keys(C)) = 2
              /\ ret[p].task.id \in Keys(C)
              /\ GetTask(C, ret[p].task.id) # ret[p].task

\* C14: delete_task(id) with an id that the collection does not hold returns
\* False and leaves the collection and the file as they were; with an id that
\* it holds it returns True and removes that entry only, and a get_task(id)
\* right after it returns None.
C14_DeleteTask ==
    \A p \in Procs :
        /\ Returned(p, "delete_task") =>
              /\ BeforeCall(p) # {}
              /\ \A C \in BeforeCall(p) :
                    IF atCall[p].call.id \notin Keys(C)
                    THEN /\ ret[p].kind = "bool" /\ ~ret[p].flag
                         /\ Stored = {C}
                         /\ fileExists = atCall[p].exists
                         /\ fileData = atCall[p].data
                    ELSE /\ ret[p].kind = "bool" /\ ret[p].flag
                         /\ Stored # {}
                         /\ \A S \in Stored :
                               /\ Keys(S) = Keys(C) \ {atCall[p].call.id}
                               /\ \A k \in Keys(S) : GetTask(S, k) = GetTask(C, k)
        /\ (Returned(p, "get_task") /\ atCall[p].deleted # 0) => ret[p].kind = "none"

\* get_task(id) has returned right after delete_task(id) returned True on a
\* collection of two tasks
C14_Witness ==
    \E p \in Procs :
        /\ Returned(p, "get_task")
        /\ atCall[p].deleted # 0
        /\ \E S \in Stored : Len(S) = 1

\* the ids of the tasks of C that the status filter of a call lets through
Selected(C, status) ==
    {k \in Keys(C) : status = "" \/ GetTask(C, k).status = status}

\* C15: get_all_tasks, with or without a status filter, returns the tasks
\* that pass the filter in strictly ascending order of id, whatever the order
\* of the entries in the file.
C15_AscendingIds ==
    \A p \in Procs :
        Returned(p, "get_all_tasks") =>
            \A C \in BeforeCall(p) :
                /\ ret[p].kind = "list"
                /\ \A i, j \in DOMAIN ret[p].list :
                      i < j => ret[p].list[i].id < ret[p].list[j].id
                /\ {ret[p].list[i].id : i \in DOMAIN ret[p].list}
                      = Selected(C, atCall[p].call.status)

\* get_all_tasks has returned two tasks from a file that holds the entry of
\* the larger id first
C15_Witness ==
    \E p \in Procs :
        /\ Returned(p, "get_all_tasks")
        /\ Len(ret[p].list) = 2
        /\ \E C \in BeforeCall(p) : Len(C) = 2 /\ C[1].key > C[2].key

\* what get_all_tasks(status) returns on the collection C
ListOf(C, status) == SortedTasks(FilterStatus(C, status))

AsSet(l) == {l[i] : i \in DOMAIN l}

\* C16: on every collection that a sequence of operations leaves, what
\* get_all_tasks returns for Pending and for Done is disjoint, together it is
\* what it returns without a filter, and every task returned for a status
\* filter has that status.
C16_FilterPartition ==
    \A p \in Procs :
        Returned(p, "get_all_tasks") =>
            /\ BeforeCall(p) # {}
            /\ \A C \in BeforeCall(p) :
                  /\ ret[p].kind = "list"
                  /\ ret[p].list = ListOf(C, atCall[p].call.status)
                  /\ atCall[p].call.status # "" =>
                        \A t \in AsSet(ret[p].list) : t.status = atCall[p].call.status
                  /\ AsSet(ListOf(C, PENDING)) \cap AsSet(ListOf(C, DONE)) = {}
                  /\ AsSet(ListOf(C, PENDING)) \cup AsSet(ListOf(C, DONE))
                        = AsSet(ListOf(C, ""))
                  /\ AsSet(ListOf(C, "")) = {GetTask(C, k) : k \in Keys(C)}

\* get_all_tasks(Done) has returned one task of a collection that holds a
\* Pending and a Done task
C16_Witness ==
    \E p \in Procs :
        /\ Returned(p, "get_all_tasks")
        /\ atCall[p].call.status = DONE
        /\ Len(ret[p].list) = 1
        /\ \E C \in BeforeCall(p) : Len(C) = 2

\* the collections c and d hold the same ids and, for each id, tasks that are
\* equal in id, title, status, priority and created_at
SameTasks(c, d) ==
    /\ Keys(c) = Keys(d)
    /\ \A k \in Keys(c) :
          LET t == GetTask(c, k)
              u == GetTask(d, k)
          IN  /\ t.id = u.id /\ t.title = u.title /\ t.status = u.status
              /\ t.priority = u.priority /\ t.created_at = u.created_at

\* C17: a load that follows save(collection), with no other writer in
\* between, returns a collection with the same ids and, for each id, a task
\* equal in id, title, status, priority and created_at; also for the empty
\* collection.
C17_RoundTrip ==
    \A p \in Procs :
        (pc[p] = "loaded" /\ lastSave # <<>>) =>
            /\ loaded[p].exc = ""
            /\ SameTasks(loaded[p].tasks, lastSave[1])

\* a load has returned after the save of two tasks, one Done and one with a
\* fraction in its created_at
C17_Witness ==
    \E p \in Procs :
        /\ pc[p] = "loaded"
        /\ lastSave # <<>>
        /\ Len(lastSave[1]) = 2
        /\ \E i, j \in DOMAIN lastSave[1] :
              /\ lastSave[1][i].task.created_at.usec # 0
              /\ lastSave[1][j].task.status = DONE

\* the file is as p's last call found it
FileUntouched(p) == fileExists = atCall[p].exists /\ fileData = atCall[p].data

\* C18: a load on a file that does not exist or that is empty returns an
\* empty collection without raising, and leaves the file as it was: absent or
\* empty.
C18_LoadEmptyFile ==
    \A p \in Procs :
        (pc[p] = "loaded" /\ (~atCall[p].exists \/ atCall[p].data = <<>>)) =>
            /\ loaded[p] = Loaded(<<>>)
            /\ FileUntouched(p)

\* a load has returned on a file that exists and is empty
C18_Witness ==
    \E p \in Procs :
        /\ pc[p] = "loaded"
        /\ atCall[p].exists /\ atCall[p].data = <<>>
        /\ fileExists

RECURSIVE DumpData(_)
\* the tokens of the task objects of the dict d, as json.dumps writes them
DumpData(d) ==
    IF d = <<>> THEN <<>>
    ELSE <<Tok("head", "", Head(d).task.h)>>
             \o [i \in DOMAIN Head(d).task.title |-> Ch(Head(d).task.title[i])]
             \o <<EndObj>> \o DumpData(Tail(d))

\* content is not empty and not JSON: not the document of what json.loads
\* makes of it
NotJson(content) ==
    /\ content # <<>>
    /\ content # <<LBrace>> \o DumpData(JsonLoads(content).tasks) \o <<RBrace>>

\* the file that p's last call found held malformed content
Malformed(p) == atCall[p].exists /\ NotJson(atCall[p].data)

\* C19: on a file with malformed content every repository operation
\* (create_task, get_all_tasks, get_task, update_task, delete_task,
\* mark_done) fails with the parse error of load, and the file is afterwards
\* as it was before.
C19_ParseErrorPropagates ==
    \A p \in Procs :
        (Finished(p) /\ Malformed(p)) =>
            /\ ret[p].kind = "raise"
            /\ ret[p].exc = "JSONDecodeError"
            /\ FileUntouched(p)

\* C19 as amended: on a file with malformed content every repository
\* operation fails and leaves the file as it was; it fails with the parse
\* error of load, except update_task given a task without an id, which fails
\* with its ValueError before it loads.
C19_ParseErrorUnlessIdUnset ==
    \A p \in Procs :
        (Finished(p) /\ Malformed(p)) =>
            /\ ret[p].kind = "raise"
            /\ ret[p].exc = IF UpdateIdUnset(p) THEN "ValueError" ELSE "JSONDecodeError"
            /\ FileUntouched(p)

\* create_task has failed on a file with malformed content
C19_Witness ==
    \E p \in Procs :
        /\ Finished(p) /\ Malformed(p)
        /\ ret[p].op = "create_task"
        /\ ret[p].kind = "raise"

\* C20: under any sequence of repository operations, a stored task's id is
\* the key it is stored under, a task that an operation finds stored and
\* leaves stored keeps its created_at, and the task that create_task stores
\* has the created_at of the task it returned.
C20_IdAndCreatedAtImmutable ==
    \A p \in Procs :
        Finished(p) =>
            \A C \in BeforeCall(p), S \in Stored :
                \A k \in Keys(S) :
                    /\ GetTask(S, k).id = k
                    /\ k \in Keys(C) =>
                          GetTask(S, k).created_at = GetTask(C, k).created_at
                    /\ (ret[p].op = "create_task" /\ ret[p].kind = "task"
                            /\ ret[p].task.id = k) =>
                          GetTask(S, k).created_at = ret[p].task.created_at

\* C20 as amended: the same, except that update_task stores, under the id of
\* the task it is given, the created_at of that task.
C20_CreatedAtKeptUnlessUpdated ==
    \A p \in Procs :
        Finished(p) =>
            \A C \in BeforeCall(p), S \in Stored :
                \A k \in Keys(S) :
                    /\ GetTask(S, k).id = k
                    /\ k \in Keys(C) =>
                          GetTask(S, k).created_at =
                              IF ret[p].op = "update_task" /\ ret[p].kind = "task"
                                     /\ ret[p].task.id = k
                              THEN atCall[p].call.task.created_at
                              ELSE GetTask(C, k).created_at
                    /\ (ret[p].op = "create_task" /\ ret[p].kind = "task"
                            /\ ret[p].task.id = k) =>
                          GetTask(S, k).created_at = ret[p].task.created_at

\* mark_done has returned a task whose created_at has a fraction, and
\* create_task has returned a second task whose created_at has one
C20_Witness ==
    \E p \in Procs :
        /\ Finished(p)
        /\ ret[p].op \in {"mark_done", "create_task"}
        /\ ret[p].kind = "task"
        /\ ret[p].task.created_at.usec # 0
        /\ \E S \in Stored :
              /\ Len(S) = 2
              /\ GetTask(S, ret[p].task.id).created_at = ret[p].task.created_at

\* a call has found no file: the run started from an empty store
StartedEmpty == \E p \in Procs : atCall[p].call.name # "" /\ ~atCall[p].exists

\* the ids create_task has returned, and the ids a create_task in progress
\* has assigned and is about to return
IssuedIds ==
    {created[i] : i \in DOMAIN created}
        \cup {task[p].id : p \in {q \in Procs : frame[q] = "create_task" /\ task[q] # NoTask}}

\* C21: starting from an empty store, under any sequence or interleaving of
\* repository operations, every id in the stored collection is an id that a
\* create_task call has returned (or, while that call is still between its
\* save and its return, is returning), and it is not larger than the highest
\* such id.
C21_StoredIdsWereReturned ==
    StartedEmpty =>
        \A S \in Stored :
            \A k \in Keys(S) :
                /\ k \in IssuedIds
                /\ \E i \in IssuedIds : i >= k
                /\ AllIdle => \E i \in DOMAIN created : created[i] = k

\* two create_task calls have returned on a store that was empty, and the
\* store holds a task
C21_Witness ==
    /\ AllIdle /\ StartedEmpty
    /\ Len(created) = 2
    /\ \E S \in Stored : Keys(S) # {}

\* the operation p has finished changed the collection: it returned the task
\* it created or updated, or delete_task returned True
Mutated(p) ==
    \/ ret[p].op \in {"create_task", "update_task", "mark_done"} /\ ret[p].kind = "task"
    \/ ret[p].op = "delete_task" /\ ret[p].kind = "bool" /\ ret[p].flag

\* C22 as stated: every repository operation performs exactly one storage
\* load and at most one storage save, exactly one save when it mutates the
\* collection and none when it is read-only or fails.
C22_OneLoadPerOperation ==
    \A p \in Procs :
        Finished(p) =>
            /\ ios[p].loads = 1
            /\ ios[p].saves = IF Mutated(p) THEN 1 ELSE 0

\* C22, amended: every repository operation performs exactly one save when it
\* mutates the collection and none when it is read-only or fails; it performs
\* exactly one load, except that update_task with an unset id performs none
\* and that mark_done performs a second one (that of update_task) when its
\* get_task has found the task.
C22_LoadsAndSaves ==
    \A p \in Procs :
        Finished(p) =>
            /\ ios[p].saves = IF Mutated(p) THEN 1 ELSE 0
            /\ ios[p].loads \in
                  IF UpdateIdUnset(p) THEN {0}
                  ELSE IF ret[p].op # "mark_done" \/ ret[p].kind = "none" THEN {1}
                  ELSE IF ret[p].kind = "task" \/ ret[p].msg = NotExistError.msg THEN {2}
                  ELSE {1, 2}    \* either load of mark_done raised

\* a mark_done has returned the task after two loads and one save, and an
\* update_task has refused an unset id without loading
C22_Witness ==
    /\ \E p \in Procs :
          /\ Finished(p) /\ ret[p].op = "mark_done" /\ ret[p].kind = "task"
          /\ ios[p] = [loads |-> 2, saves |-> 1]
    /\ \E p \in Procs :
          /\ Finished(p) /\ UpdateIdUnset(p)
          /\ ios[p] = [loads |-> 0, saves |-> 0]

\* C23: get_task(id) returns the stored task when id is in the collection and
\* None, without error, when it is not; the two outcomes differ; get_task
\* leaves the file as it was, and right after a delete_task(id) of the same
\* process that returned True, get_task(id) returns None.
C23_GetTask ==
    \A p \in Procs :
        Returned(p, "get_task") =>
            /\ BeforeCall(p) # {}
            /\ \A C \in BeforeCall(p) :
                  IF atCall[p].call.id \in Keys(C)
                  THEN ret[p] = RetTask("get_task", GetTask(C, atCall[p].call.id))
                  ELSE ret[p] = RetNone("get_task")
            /\ ret[p].kind \in {"task", "none"}
            /\ ret[p].kind = "task" => ret[p].task # RetNone("get_task").task
            /\ atCall[p].deleted # 0 => ret[p].kind = "none"
            /\ FileUntouched(p)

\* get_task(2) has returned the second task, a Done one, of a collection of two
C23_Witness ==
    \E p \in Procs :
        /\ Returned(p, "get_task")
        /\ \E C \in BeforeCall(p) :
              /\ Len(C) = 2 /\ atCall[p].call.id = 2
              /\ ret[p].kind = "task" /\ ret[p].task.id = 2
              /\ ret[p].task.status = DONE

\* the command of p has written an error message for id to the error stream,
\* nothing to standard output, and main has returned 1
ErrorExit(p, id) ==
    /\ cli[p].returned /\ cli[p].code = 1
    /\ cli[p].stdout = Nothing
    /\ cli[p].stderr # Nothing /\ cli[p].stderr.id = id

\* the command of p has written a confirmation to standard output, nothing
\* to the error stream, and main has returned 0
ConfirmedExit(p) ==
    /\ cli[p].returned /\ cli[p].code = 0
    /\ cli[p].stdout # Nothing
    /\ cli[p].stderr = Nothing

\* C24: done <id> and delete <id> return exit code 0 with a confirmation on
\* standard output when the id exists, and the task is then Done,
\* respectively removed; they return exit code 1 with an error message on
\* the error stream when the id does not exist.
C24_DoneAndDeleteExitCodes ==
    \A p \in Procs :
        /\ Returned(p, "mark_done") =>
              /\ cli[p].command = "done"
              /\ \A C \in BeforeCall(p) :
                    IF atCall[p].call.id \in Keys(C)
                    THEN /\ ConfirmedExit(p)
                         /\ cli[p].stdout.id = atCall[p].call.id
                         /\ cli[p].stdout.title = GetTask(C, atCall[p].call.id).title
                         /\ Stored # {}
                         /\ \A S \in Stored :
                               /\ atCall[p].call.id \in Keys(S)
                               /\ GetTask(S, atCall[p].call.id).status = DONE
                    ELSE ErrorExit(p, atCall[p].call.id) /\ FileUntouched(p)
        /\ Returned(p, "delete_task") =>
              /\ cli[p].command = "delete"
              /\ \A C \in BeforeCall(p) :
                    IF atCall[p].call.id \in Keys(C)
                    THEN /\ ConfirmedExit(p)
                         /\ cli[p].stdout.id = atCall[p].call.id
                         /\ Stored # {}
                         /\ \A S \in Stored : atCall[p].call.id \notin Keys(S)
                    ELSE ErrorExit(p, atCall[p].call.id) /\ FileUntouched(p)

\* done has returned 1 for an id that a collection of one task did not hold
C24_Witness ==
    \E p \in Procs :
        /\ Returned(p, "mark_done")
        /\ ErrorExit(p, 2)
        /\ \E C \in BeforeCall(p) : Keys(C) = {1}

\* the command of p failed: the repository raised, or the id was not found
CommandFailed(p) ==
    \/ ret[p].kind = "raise"
    \/ ret[p].op = "mark_done" /\ ret[p].kind = "none"
    \/ ret[p].op = "delete_task" /\ ~ret[p].flag

\* line starts with the prefix "Error:"
Prefixed(line) == line.fmt \in {"Error: Task #{args.id} not found."}

\* C25: every command that fails, whatever the cause (task not found, or an
\* error propagated from the repository such as a malformed storage file),
\* prints a prefixed error message to the error stream and returns a
\* non-zero exit code from main; every command that succeeds prints a
\* confirmation to standard output and returns zero.
C25_FailuresReportAndReturn ==
    \A p \in Procs :
        (Finished(p) /\ cli[p].command # "") =>
            IF CommandFailed(p)
            THEN /\ cli[p].returned /\ cli[p].code # 0
                 /\ Prefixed(cli[p].stderr)
            ELSE ConfirmedExit(p)

\* C26: JsonStorage.delete removes the backing file if it is present and is
\* a no-op that raises no error if it is absent, also when two processes
\* call delete on the same path concurrently; afterwards the path has no
\* file, so that load returns an empty collection.
C26_DeleteNeverRaises ==
    \A p \in Procs :
        Returned(p, "delete") =>
            /\ ret[p].kind # "raise"
            /\ (\A q \in Procs : atCall[q].call.name \in {"", "delete"}) => ~fileExists

\* the processes have called nothing but operations that only load
OnlyReaders ==
    \A q \in Procs : atCall[q].call.name \in {"", "get_task", "get_all_tasks"}

\* C27: concurrent loads of a saved file can hold the shared lock at the same
\* time: no load waits for another load or fails, and each returns the full
\* saved collection.
C27_ReadersShareLock ==
    OnlyReaders =>
        \A p \in Procs :
            /\ pc[p] = "load_lock" => ENABLED LoadLock(p)
            /\ pc[p] \in {"load_unlock", "loaded"} =>
                  /\ loaded[p].exc = ""
                  /\ Stored = {loaded[p].tasks}

\* both processes hold the shared lock on a file of two tasks
C27_Witness ==
    /\ OnlyReaders
    /\ \A p \in Procs : locks[p] = "sh"
    /\ \E S \in Stored : Len(S) = 2

\* a process that is inside an operation can take a step, or waits for a
\* lock that a process which can take a step holds
NoDeadlock ==
    (\E p \in Procs : pc[p] # "idle") =>
        \E p \in Procs : pc[p] # "idle" /\ ENABLED Step(p)

\* C28: every repository operation terminates: no process waits for the file
\* lock for ever and every started operation returns or fails (no deadlock
\* between loads and saves), and when all operations have returned the file
\* holds a complete, loadable collection.
C28_TerminatesWithLoadableFile ==
    /\ NoDeadlock
    /\ AllIdle => (fileExists => LoadResult(fileData).exc = "")

\* the entries of the collection C, whatever their order
Entries(C) == {C[i] : i \in DOMAIN C}

\* what the call c returns, and the entries it leaves in the file, when the
\* file holds the collection C at its load and the clock reads now: a
\* function of the file content and the arguments alone
Outcome(c, C, now) ==
    LET has == c.id \in Keys(C)
        rest(k) == {e \in Entries(C) : e.key # k}
    IN  CASE c.name = "create_task" ->
                LET k == IF C = <<>> THEN 1 ELSE SetMax(Keys(C)) + 1
                    t == Task(k, c.title, c.priority, PENDING, now)
                IN  [ret |-> RetTask(c.name, t), store |-> Entries(C) \cup {Entry(t)}]
          [] c.name = "get_all_tasks" ->
                LET ids == SortedSeq(Selected(C, c.status))
                IN  [ret |-> RetList(c.name, [i \in DOMAIN ids |-> GetTask(C, ids[i])]),
                     store |-> Entries(C)]
          [] c.name = "get_task" ->
                [ret |-> IF has THEN RetTask(c.name, GetTask(C, c.id)) ELSE RetNone(c.name),
                 store |-> Entries(C)]
          [] c.name = "update_task" ->
                IF c.task.id = None
                THEN [ret |-> Raise(c.name, IdNoneError), store |-> Entries(C)]
                ELSE IF c.task.id \notin Keys(C)
                THEN [ret |-> Raise(c.name, NotExistError), store |-> Entries(C)]
                ELSE [ret |-> RetTask(c.name, c.task),
                      store |-> rest(c.task.id) \cup {Entry(c.task)}]
          [] c.name = "delete_task" ->
                [ret |-> RetBool(c.name, has), store |-> rest(c.id)]
          [] c.name = "mark_done" ->
                IF ~has THEN [ret |-> RetNone(c.name), store |-> Entries(C)]
                ELSE LET t == [GetTask(C, c.id) EXCEPT !.status = DONE]
                     IN  [ret |-> RetTask(c.name, t), store |-> rest(c.id) \cup {Entry(t)}]

\* C29: no caching across calls: the result of every repository operation
\* and the collection it leaves in the file depend only on the content of the
\* file at the operation's load and on its arguments (and, for create_task,
\* on the clock), not on what the instance did before.
C29_NoCaching ==
    \A p \in Procs :
        Finished(p) =>
            /\ BeforeCall(p) # {}
            /\ \A C \in BeforeCall(p) :
                  LET o == Outcome(atCall[p].call, C, ret[p].task.created_at)
                  IN  /\ ret[p] = o.ret
                      /\ Stored # {}
                      /\ \A S \in Stored : Entries(S) = o.store

\* after create_task, delete_task and more, a second create_task has
\* returned the id the first one returned: it looked at the file only
C29_Witness ==
    \E p \in Procs :
        /\ Returned(p, "create_task")
        /\ Len(created) = 2 /\ created[1] = created[2]
        /\ \E C \in BeforeCall(p) : C = <<>>

\* content holds a task object that lacks a member or whose status or
\* priority is not a value of the enum
Defective(content) ==
    \E i \in DOMAIN content :
        /\ content[i].t = "head"
        /\ \/ content[i].h.absent # {}
           \/ content[i].h.status \notin Status
           \/ content[i].h.priority \notin Priority

\* C30: all five fields (id, title, status, priority, created_at) are
\* required on load for every stored task: on a file in which a task object
\* lacks one of them, or holds a status or priority outside the allowed
\* values, load fails with an error and returns no collection, not a partial
\* one, and the operation that loaded fails with that error and leaves the
\* file as it was.
C30_FieldsRequired ==
    \A p \in Procs :
        (atCall[p].exists /\ Defective(atCall[p].data)) =>
            /\ pc[p] = "loaded" =>
                  /\ loaded[p].tasks = <<>>
                  /\ loaded[p].exc # ""
                  /\ ~NotJson(atCall[p].data) => loaded[p].exc \in {"KeyError", "ValueError"}
            /\ (Finished(p) /\ ~UpdateIdUnset(p)) =>
                  /\ ret[p].kind = "raise"
                  /\ ret[p].exc \in {"KeyError", "ValueError", "JSONDecodeError"}
                  /\ FileUntouched(p)

\* a load has failed on a file whose first task object is sound and whose
\* second one has a status that is no value of Status
C30_Witness ==
    \E p \in Procs :
        /\ pc[p] = "loaded"
        /\ loaded[p] = [exc |-> "ValueError", tasks |-> <<>>]
        /\ ~NotJson(fileData)
        /\ \E i, j \in DOMAIN fileData :
              /\ i < j
              /\ fileData[i].t = "head" /\ FieldError(fileData[i].h) = ""
              /\ fileData[j].t = "head" /\ fileData[j].h.status \notin Status

\* C31: a failed update_task leaves the store unchanged: given a task whose
\* id is unset or is not in the collection, update_task raises, performs no
\* save, and the file is as it was before the call, absent if it was absent.
C31_FailedUpdateLeavesStore ==
    \A p \in Procs :
        /\ (UpdateIdUnset(p) \/ UpdateIdUnknown(p)) => ret[p].kind = "raise"
        /\ (Returned(p, "update_task") /\ ret[p].kind = "raise") =>
              /\ ios[p].saves = 0
              /\ FileUntouched(p)

\* update_task has raised for an id that is not stored, on a path that had
\* no file, and there is still no file
C31_Witness ==
    \E p \in Procs :
        /\ UpdateIdUnknown(p)
        /\ ret[p].msg = NotExistError.msg
        /\ ~atCall[p].exists /\ ~fileExists

\* C32: mark_done(id) on an existing task, with no concurrent process,
\* changes only that task's status: afterwards the stored task has status
\* Done and the id, title, priority and created_at it had, every other task
\* is as it was, and the returned task equals the stored one.
C32_MarkDoneChangesStatusOnly ==
    \A p \in Procs :
        Returned(p, "mark_done") =>
            \A C \in BeforeCall(p) :
                LET id == atCall[p].call.id
                IN  id \in Keys(C) =>
                       /\ ret[p].kind = "task"
                       /\ Stored # {}
                       /\ \A S \in Stored :
                             /\ Keys(S) = Keys(C)
                             /\ GetTask(S, id) = [GetTask(C, id) EXCEPT !.status = DONE]
                             /\ \A k \in Keys(C) \ {id} : GetTask(S, k) = GetTask(C, k)
                             /\ ret[p].task = GetTask(S, id)

\* mark_done has returned for a Pending task that was stored before a task
\* of another priority
C32_Witness ==
    \E p \in Procs :
        /\ Returned(p, "mark_done")
        /\ ret[p].kind = "task" /\ ret[p].task.status = DONE
        /\ \E C \in BeforeCall(p) :
              /\ Cardinality(Keys(C)) = 2
              /\ GetTask(C, atCall[p].call.id).status = PENDING
              /\ \E k \in Keys(C) : GetTask(C, k).priority # ret[p].task.priority
              /\ C[1].key = atCall[p].call.id

\* the call p made last changes nothing: a read, or a delete_task or
\* mark_done for an id the file did not hold
ChangesNothing(p) ==
    LET c == atCall[p].call
    IN  \/ c.name \in {"get_all_tasks", "get_task"}
        \/ /\ c.name \in {"delete_task", "mark_done"}
           /\ \A C \in BeforeCall(p) : c.id \notin Keys(C)

\* C34: get_all_tasks, get_task, and delete_task and mark_done for an id that
\* is not stored never call save, at any point of the operation, and once
\* they have returned the file is as it was at the call: same content, and
\* still absent when it was absent.
C34_ReadsAndNotFoundNeverSave ==
    \A p \in Procs :
        ChangesNothing(p) =>
            /\ ios[p].saves = 0
            /\ pc[p] = "idle" => FileUntouched(p)

C34_Witness ==
    \E p \in Procs :
        /\ Returned(p, "delete_task")
        /\ ret[p].kind = "bool" /\ ~ret[p].flag
        /\ ios[p].loads = 1
        /\ ~atCall[p].exists /\ ~fileExists

\* C35: load never fails because the file is absent: when the file is not
\* there at the moment load reads it, also when JsonStorage.delete of another
\* process removed it between load's existence check and its open, load
\* returns the empty collection.
C35_AbsentFileLoadsEmpty ==
    \A p \in Procs :
        pc[p] = "loaded" => loaded[p].exc # FileNotFound.exc

\* the command of p was done or delete for an id the file did not hold
IdNotStored(p) ==
    /\ \/ Returned(p, "mark_done")
       \/ Returned(p, "delete_task")
    /\ BeforeCall(p) # {}
    /\ \A C \in BeforeCall(p) : atCall[p].call.id \notin Keys(C)

\* the invocation of p had no subcommand
NoSubcommand(p) == pc[p] = "idle" /\ cli[p].returned /\ cli[p].command = ""

\* C36: a command from which main returns a non-zero exit code, which done
\* and delete do for an id that is not stored and main does when there is no
\* subcommand, leaves the file as it was; with no subcommand main returns 1
\* and has neither loaded nor saved.
C36_FailedCommandsChangeNothing ==
    \A p \in Procs :
        /\ IdNotStored(p) => cli[p].returned /\ cli[p].code = 1
        /\ NoSubcommand(p) => cli[p].code = 1 /\ ios[p] = NoIo
        /\ (pc[p] = "idle" /\ cli[p].returned /\ cli[p].code # 0) =>
              /\ IdNotStored(p) \/ NoSubcommand(p)
              /\ ios[p].saves = 0
              /\ FileUntouched(p)

C36_Witness ==
    \E p \in Procs :
        /\ NoSubcommand(p)
        /\ cli[p].stdout.fmt # "" /\ cli[p].stderr = Nothing
        /\ atCall[p].exists /\ Cardinality({C \in Stored : Len(C) = 2}) = 1

\* C37: a process holds a lock on the file only between the flock call of
\* its load or save and the finally clause that follows it; whichever way
\* the try block ends (content parsed, content not JSON, empty content,
\* json.dump done, json.dump failed), no lock is held once load or save has
\* returned or raised.
C37_LocksReleased ==
    \A p \in Procs :
        /\ locks[p] = "sh" => pc[p] \in {"load_read", "load_unlock"}
        /\ locks[p] = "ex" => pc[p] \in {"save_dump", "save_finally"}
        /\ locks[p] \in {"", "sh", "ex"}

C37_Witness ==
    \E p \in Procs :
        /\ pc[p] = "idle"
        /\ ret[p].kind = "raise" /\ ret[p].exc = WriteError.exc
        /\ ios[p].saves = 1
        /\ locks[p] = ""
====
